---- MODULE Spec2Model ----
(***************************************************************************)
(* One agent iteration of OpenGradient/erc-onchain-agent, as a state       *)
(* machine with one step per statement of the entry point that is called.  *)
(*                                                                         *)
(*   executeAgent      src/agent_execitor_precompile.py, lines 10-40       *)
(*   runNextIteration  src/agent_executor_precompile.py, lines 10-46       *)
(*                                                                         *)
(* src/precompile.py passes a positional argument after a keyword argument *)
(* (lines 29-31); Python rejects the file when it is compiled, so the only *)
(* step of its executeAgent is the SyntaxError of loading the file.        *)
(*                                                                         *)
(* Reading of the source.  The module-level names of lines 3-8 and the     *)
(* name json are placeholders for the collaborators the host binds:        *)
(* modelRegistry and reasoningRegistry are dicts filled by the host,       *)
(* Engines.RE_ACT is a registry key, AgentIterationResult and              *)
(* IERCAgentTool.ParamValue/Input are constructors, abi is the encoder,    *)
(* json.parse(...).array() yields the raw parameters in order.  A          *)
(* collaborator does what section 6 of the specification says of it: run   *)
(* may raise ModelUnavailable, parse may raise UnparsableOutput, abi.encode*)
(* may raise EncodingError.  Everything the function bodies build          *)
(* themselves has Python's meaning: dict.get answers None for an absent    *)
(* key, d[k] raises KeyError for an absent key, an attribute of None or of *)
(* a dict or of a str raises AttributeError, a dict comprehension keeps the*)
(* last value of a repeated key, a dict keeps its keys in the order of     *)
(* their first insertion, and iterating a dict yields its keys.  Names of  *)
(* tools and of parameters are strings.  No statement of either function   *)
(* catches an exception: whatever is raised leaves the function.           *)
(***************************************************************************)
EXTENDS Integers, Sequences, FiniteSets, TLC

VARIABLES
    tools,              \* the catalog passed to the iterations (argument tools)
    modelRegistry,      \* line 3: ids of the registered model handles
    reasoningRegistry,  \* line 4: ids of the registered reasoning engines
    iter,               \* iter[i]: the frame of iteration i
    passed              \* history: catalog and registries as the caller set them

vars == <<tools, modelRegistry, reasoningRegistry, iter, passed>>

\* Where each call stands: its statement (pc) and, inside the loop of line 28,
\* the number of raw parameters already handled (done).  Every statement
\* changes it.
Progress == [i \in DOMAIN iter |-> <<iter[i].pc, iter[i].done>>]

(***************************************************************************)
(* Bounds and input domains                                                *)
(***************************************************************************)
MaxParams == 3          \* longest raw parameter list the model output holds

None == [kind |-> "None"]          \* Python's None

Unbound == [kind |-> "Unbound"]    \* a local no statement has assigned yet

RE_ACT == "RE_ACT"

TypeTags == {"address", "integer"}

ParamNames == {"to", "amount", "memo"}

RawValues == {"0xABC", "100"}

ToolNames == {"transfer", "ping", "mint"}

Answers == {"42", "none"}

Reasonings == {"r1", "r2"}

ModelIds == {"m1", "m2"}

Variants == {"executeAgent", "runNextIteration", "precompile.executeAgent"}

Param(n, v) == [name |-> n, value |-> v]

ParamDescription(n, t) == [name |-> n, type |-> t]

InputDescription(ps) == [paramDescriptions |-> ps]

\* A tool object of the catalog: name, description, inputDescription.
Tool(n, d, ps) ==
    [kind |-> "Tool", name |-> n, description |-> d,
     inputDescription |-> InputDescription(ps)]

transfer ==
    Tool("transfer", "send tokens",
         <<ParamDescription("to", "address"), ParamDescription("amount", "integer")>>)

ping == Tool("ping", "no arguments", <<>>)

\* Catalogs a caller passes: tool names unique within a catalog.
Catalogs == {<<>>, <<transfer>>, <<ping, transfer>>}

SeqsUpTo(S, n) == UNION {[1..k -> S] : k \in 0..n}

RawParamLists == SeqsUpTo({Param(n, v) : n \in ParamNames, v \in RawValues}, MaxParams)

Finished(a) == [kind |-> "Finished", answer |-> a]

ToolInvocation(t, ps, r) ==
    [kind |-> "ToolInvocation", toolName |-> t, params |-> ps, reasoning |-> r]

\* What reasoningEngine.parse can return.
NextSteps ==
    {Finished(a) : a \in Answers}
    \cup {ToolInvocation(t, ps, r) : t \in ToolNames, ps \in RawParamLists, r \in Reasonings}

(***************************************************************************)
(* Python values                                                           *)
(***************************************************************************)
\* {e.name: e for e in seq}: one key per name, the last element of that name.
DictByName(seq) ==
    [n \in {seq[k].name : k \in DOMAIN seq} |->
        seq[CHOOSE k \in DOMAIN seq :
                /\ seq[k].name = n
                /\ \A j \in DOMAIN seq : seq[j].name = n => j <= k]]

\* d.get(k): None for an absent key.
DictGet(d, k) == IF k \in DOMAIN d THEN d[k] ELSE None

\* d[k] = v on a dict d.
DictPut(d, k, v) == [n \in DOMAIN d \cup {k} |-> IF n = k THEN v ELSE d[n]]

\* Key order of a dict after d[k] = v: a new key goes last, an old one stays.
KeysPut(order, k) ==
    IF \E j \in DOMAIN order : order[j] = k THEN order ELSE Append(order, k)

(***************************************************************************)
(* The encoder collaborator (abi)                                          *)
(***************************************************************************)
\* Whether the encoder accepts a raw value for a type.
Encodable(value, type) ==
    \/ type = "address" /\ value = "0xABC"
    \/ type = "integer" /\ value = "100"

\* abi.encode(value, type), for an accepted value.
abi_encode(value, type) == <<"enc", type, value>>

\* abi.encode(list): the aggregate encoding of a list.
abi_encodeAll(values) == <<"encAll", values>>

ParamValue(type, value) == [type |-> type, value |-> value]

(***************************************************************************)
(* The frame of one call and the order of its statements                   *)
(***************************************************************************)
\* The statements of each entry point, in the order they are written.
Statements(variant) ==
    IF variant = "executeAgent"
    THEN <<"toolsByName", "llm", "reasoningEngine", "buildPrompt", "run", "parse",
           "isDone", "tool", "toolInputByName", "params", "for",
           "abiEncodedParams", "return">>
    ELSE IF variant = "runNextIteration"
    THEN <<"llm", "reasoningEngine", "toolsMetadata", "toolsByName", "buildPrompt",
           "run", "parse", "isDone", "tool", "toolInputByName", "params", "for",
           "abiEncodedParams", "return">>
    ELSE <<"compile">>

\* The statement after stmt; after the last one the call has returned.
Succ(variant, stmt) ==
    LET order == Statements(variant)
        k == CHOOSE j \in DOMAIN order : order[j] = stmt
    IN  IF k = Len(order) THEN "returned" ELSE order[k + 1]

\* The frame on entry: the arguments bound, every local unbound.
Frame(variant, modelId) ==
    [variant |-> variant, modelId |-> modelId,
     pc |-> Statements(variant)[1],
     toolsMetadata |-> Unbound, toolsByName |-> Unbound,
     llm |-> Unbound, reasoningEngine |-> Unbound,
     llmPrompt |-> Unbound, llmOutput |-> Unbound, nextStep |-> Unbound,
     tool |-> Unbound, toolInputByName |-> Unbound,
     params |-> Unbound, done |-> 0,
     parsedParams |-> Unbound, keys |-> <<>>,
     abiEncodedParams |-> Unbound,
     result |-> None, raised |-> None, calls |-> <<>>]

\* Control moves to the next statement.
Goto(s) == [s EXCEPT !.pc = Succ(s.variant, s.pc)]

\* An exception leaves the function at the statement that raised it.
Raise(s, kind, name, type) ==
    [s EXCEPT !.pc = "raised",
              !.raised = [kind |-> kind, at |-> s.pc, name |-> name, type |-> type]]

\* A call of a collaborator, recorded in the order the calls are made.
Call(op, a, b) == [op |-> op, a |-> a, b |-> b]

Called(s, c) == [s EXCEPT !.calls = Append(@, c)]

\* return AgentIterationResult(...)
Return(s, r) == [s EXCEPT !.pc = "returned", !.result = r]

(***************************************************************************)
(* Collaborators: registries, model handle, reasoning engine               *)
(***************************************************************************)
ModelHandle(m) == [kind |-> "ModelHandle", id |-> m]

ReasoningEngine(e) == [kind |-> "ReasoningEngine", id |-> e]

\* What llm.run can return: text the engine parses to a next step, or text it
\* cannot classify.
Garbage == [kind |-> "garbage"]

Says(ns) == [kind |-> "text", says |-> ns]

Outputs == {Says(ns) : ns \in NextSteps} \cup {Garbage}

\* llm.run raising instead of returning.
ModelUnavailable == [kind |-> "ModelUnavailable"]

\* reasoningEngine.buildPrompt(description, tools, agentReasoning, prompt)
buildPrompt(catalog) == [kind |-> "prompt", tools |-> catalog]

\* reasoningEngine.parse(llmOutput), for text it can classify.
parse(llmOutput) == llmOutput.says

(***************************************************************************)
(* The statements.  Each operator maps the frame before a statement to the *)
(* frame after it; the line numbers are those of executeAgent, and from    *)
(* buildPrompt on runNextIteration has the same statement six lines down.  *)
(***************************************************************************)
\* precompile.py 29-31: ParamValue(type=..., abi.encode(...)) puts a
\* positional argument after a keyword argument; compiling the file raises
\* SyntaxError and no statement of its executeAgent runs.
compile(s) == Raise(s, "SyntaxError", "-", "-")

\* runNextIteration 14-18: one dict of metadata per tool, from the tool's
\* methods name(), description(), inputDescription().
toolsMetadata(s) ==
    Goto([s EXCEPT !.toolsMetadata =
            [k \in DOMAIN tools |->
                [kind |-> "dict", name |-> tools[k].name,
                 description |-> tools[k].description,
                 inputDescription |-> tools[k].inputDescription]]])

\* Line 11: toolsByName = {tool.name: tool for tool in tools}.
\* runNextIteration 19 iterates toolsMetadata instead, whose elements are
\* dicts: the attribute name of the first of them raises AttributeError.
toolsByName(s) ==
    IF s.variant = "executeAgent"
    THEN Goto([s EXCEPT !.toolsByName = DictByName(tools)])
    ELSE IF s.toolsMetadata # <<>>
         THEN Raise(s, "AttributeError", "name", "dict")
         ELSE Goto([s EXCEPT !.toolsByName = <<>>])

\* Line 12: llm = modelRegistry.get(modelId).
llm(s) == Goto([s EXCEPT !.llm = DictGet(modelRegistry, s.modelId)])

\* Line 13: reasoningEngine = reasoningRegistry.get(Engines.RE_ACT).
reasoningEngine(s) ==
    Goto([s EXCEPT !.reasoningEngine = DictGet(reasoningRegistry, RE_ACT)])

\* Line 15: llmPrompt = reasoningEngine.buildPrompt(...).
llmPrompt(s) ==
    IF s.reasoningEngine = None
    THEN Raise(s, "AttributeError", "buildPrompt", "NoneType")
    ELSE LET catalog == IF s.variant = "executeAgent" THEN tools ELSE s.toolsMetadata
         IN  Goto(Called([s EXCEPT !.llmPrompt = buildPrompt(catalog)],
                         Call("buildPrompt", catalog, "-")))

\* llmOutput with a retry: when run raises ModelUnavailable it is called
\* once more before the error is let through.
llmOutput_Retries(s, out) ==
    IF s.llm = None
    THEN Raise(s, "AttributeError", "run", "NoneType")
    ELSE LET c == Called(s, Call("run", s.llmPrompt, "-"))
         IN  IF out = ModelUnavailable
             THEN Raise(Called(c, Call("run", s.llmPrompt, "-")),
                        "ModelUnavailable", "-", "-")
             ELSE Goto([c EXCEPT !.llmOutput = out])

\* Line 16: llmOutput = llm.run(llmPrompt); out is what the model does.
llmOutput(s, out) ==
    IF s.llm = None
    THEN Raise(s, "AttributeError", "run", "NoneType")
    ELSE LET c == Called(s, Call("run", s.llmPrompt, "-"))
         IN  IF out = ModelUnavailable
             THEN Raise(c, "ModelUnavailable", "-", "-")
             ELSE Goto([c EXCEPT !.llmOutput = out])

\* nextStep with a second attempt: on output that does not parse, the call
\* goes back to ask the model again instead of letting the error through.
nextStep_Reprompts(s) ==
    LET c == Called(s, Call("parse", s.llmOutput, "-"))
    IN  IF s.llmOutput = Garbage
        THEN [c EXCEPT !.pc = "run"]
        ELSE Goto([c EXCEPT !.nextStep = parse(s.llmOutput)])

\* Line 17: nextStep = reasoningEngine.parse(llmOutput).
nextStep(s) ==
    LET c == Called(s, Call("parse", s.llmOutput, "-"))
    IN  IF s.llmOutput = Garbage
        THEN Raise(c, "UnparsableOutput", "-", "-")
        ELSE Goto([c EXCEPT !.nextStep = parse(s.llmOutput)])

\* isDone with the slip of building the final answer without returning it:
\* control falls through to the tool lookup.
isDone_NoReturn(s) ==
    IF s.nextStep.kind = "Finished"
    THEN Goto([s EXCEPT !.result =
                   [isFinalAnswer |-> TRUE, finalAnswer |-> s.nextStep.answer]])
    ELSE Goto(s)

\* Lines 19-20: if nextStep.isDone(): return the final answer.
isDone(s) ==
    IF s.nextStep.kind = "Finished"
    THEN Return(s, [isFinalAnswer |-> TRUE, finalAnswer |-> s.nextStep.answer])
    ELSE Goto(s)

\* Line 22: tool = toolsByName.get(nextStep.toolName).
tool(s) ==
    Goto(Called([s EXCEPT !.tool = DictGet(s.toolsByName, s.nextStep.toolName)],
                Call("toolsByName.get", s.nextStep.toolName, "-")))

\* Line 23: toolInputByName = {input.name: input for input in
\* tool.inputDescription.paramDescriptions}.
toolInputByName(s) ==
    IF s.tool = None
    THEN Raise(s, "AttributeError", "inputDescription", "NoneType")
    ELSE IF s.tool.kind = "dict"
         THEN Raise(s, "AttributeError", "inputDescription", "dict")
         ELSE Goto([s EXCEPT !.toolInputByName =
                        DictByName(s.tool.inputDescription.paramDescriptions)])

\* Lines 25-26: params = json.parse(nextStep.params); parsedParams = {}.
params(s) ==
    Goto([s EXCEPT !.params = s.nextStep.params, !.done = 0,
                   !.parsedParams = <<>>, !.keys = <<>>])

\* Lines 29-32, the body of the loop for the raw parameter param:
\* paramDescription = toolInputByName[param.name], then
\* parsedParams[param.name] = ParamValue(type, abi.encode(param.value, type)).
forBody(s, param) ==
    LET c == Called(s, Call("toolInputByName[]", param.name, "-"))
    IN  IF param.name \notin DOMAIN s.toolInputByName
        THEN Raise(c, "KeyError", param.name, "-")
        ELSE LET type == s.toolInputByName[param.name].type
                 e == Called(c, Call("abi.encode", param.value, type))
             IN  IF ~Encodable(param.value, type)
                 THEN Raise(e, "EncodingError", "-", type)
                 ELSE [e EXCEPT
                         !.parsedParams =
                             DictPut(@, param.name,
                                     ParamValue(type, abi_encode(param.value, type))),
                         !.keys = KeysPut(@, param.name),
                         !.done = @ + 1]

\* for as a loop that never moves on to the next raw parameter.
for_Stalls(s) ==
    IF s.done = Len(s.params) THEN Goto(s) ELSE s

\* Line 28: for param in params.array(): the next raw parameter, or past the
\* loop when none is left.
for(s) ==
    IF s.done = Len(s.params) THEN Goto(s) ELSE forBody(s, s.params[s.done + 1])

\* Line 34: abiEncodedParams = abi.encode([params.value for params in
\* parsedParams]).  Iterating the dict yields its keys, the parameter names;
\* the attribute value of the first of them raises AttributeError.
abiEncodedParams(s) ==
    IF s.keys # <<>>
    THEN Raise(s, "AttributeError", "value", "str")
    ELSE Goto(Called([s EXCEPT !.abiEncodedParams = abi_encodeAll(<<>>)],
                     Call("abi.encodeAll", <<>>, "-")))

\* return in the shape of precompile.py 33-37: the params mapping directly
\* in the result, no Input and no aggregate payload.
return_ParamsOnly(s) ==
    Return(s, [isFinalAnswer |-> FALSE,
               tool |-> s.tool,
               params |-> s.parsedParams,
               agentReasoning |-> s.nextStep.reasoning])

\* Lines 36-40: return AgentIterationResult(isFinalAnswer=False, tool=tool,
\* toolInput=Input(params=parsedParams, abiEncodedParams=...), agentReasoning=...).
return(s) ==
    Return(s, [isFinalAnswer |-> FALSE,
               tool |-> s.tool,
               toolInput |-> [params |-> s.parsedParams,
                              abiEncodedParams |-> s.abiEncodedParams],
               agentReasoning |-> s.nextStep.reasoning])

(***************************************************************************)
(* A call run alone, from entry to its end, with nothing in between        *)
(***************************************************************************)
\* The statement the frame s is at, executed; out is what the model does if
\* that statement is the call of run.
Statement(s, out) ==
    CASE s.pc = "compile" -> compile(s)
      [] s.pc = "toolsMetadata" -> toolsMetadata(s)
      [] s.pc = "toolsByName" -> toolsByName(s)
      [] s.pc = "llm" -> llm(s)
      [] s.pc = "reasoningEngine" -> reasoningEngine(s)
      [] s.pc = "buildPrompt" -> llmPrompt(s)
      [] s.pc = "run" -> llmOutput(s, out)
      [] s.pc = "parse" -> nextStep(s)
      [] s.pc = "isDone" -> isDone(s)
      [] s.pc = "tool" -> tool(s)
      [] s.pc = "toolInputByName" -> toolInputByName(s)
      [] s.pc = "params" -> params(s)
      [] s.pc = "for" -> for(s)
      [] s.pc = "abiEncodedParams" -> abiEncodedParams(s)
      [] s.pc = "return" -> return(s)

RECURSIVE RunToEnd(_, _)
\* The frame in which a call that is at s ends when it runs on undisturbed.
RunToEnd(s, out) ==
    IF s.pc \in {"returned", "raised"} THEN s ELSE RunToEnd(Statement(s, out), out)

\* The whole call, alone: from entry to return or raise.
CallAlone(variant, modelId, out) == RunToEnd(Frame(variant, modelId), out)

(***************************************************************************)
(* The state machine                                                       *)
(***************************************************************************)
Iters == {1}

EngineRegistries == {<<>>, [e \in {RE_ACT} |-> ReasoningEngine(e)]}

Init ==
    /\ tools \in Catalogs
    /\ modelRegistry = [m \in {"m1"} |-> ModelHandle(m)]
    /\ reasoningRegistry \in EngineRegistries
    /\ iter \in [Iters -> {Frame(v, m) : v \in Variants, m \in ModelIds}]
    /\ passed = [tools |-> tools, modelRegistry |-> modelRegistry,
                 reasoningRegistry |-> reasoningRegistry]

\* Step with parsedParams a module-level dict instead of the local of line
\* 26: what one call's loop puts into it, every call past line 26 sees.
Step_SharedParsedParams(i, stmt, f) ==
    /\ iter[i].pc = stmt
    /\ iter' = [j \in DOMAIN iter |->
                  IF j = i
                  THEN f
                  ELSE IF stmt = "for"
                          /\ iter[j].pc \in {"for", "abiEncodedParams", "return"}
                       THEN [iter[j] EXCEPT !.parsedParams = f.parsedParams,
                                            !.keys = f.keys]
                       ELSE iter[j]]
    /\ UNCHANGED <<tools, modelRegistry, reasoningRegistry, passed>>

\* Step with the slip of modelRegistry.setdefault(modelId, handle) where
\* line 12 only reads the registry: an unregistered id gets registered.
Step_RegistersModel(i, stmt, f) ==
    /\ iter[i].pc = stmt
    /\ iter' = [iter EXCEPT ![i] = f]
    /\ modelRegistry' = IF stmt = "llm"
                        THEN DictPut(modelRegistry, iter[i].modelId,
                                     ModelHandle(iter[i].modelId))
                        ELSE modelRegistry
    /\ UNCHANGED <<tools, reasoningRegistry, passed>>

\* Step with the slip of taking the resolved tool out of the caller's
\* catalog (tools.remove) where line 22 only looks it up.
Step_RemovesTool(i, stmt, f) ==
    /\ iter[i].pc = stmt
    /\ iter' = [iter EXCEPT ![i] = f]
    /\ tools' = IF stmt = "tool"
                THEN SelectSeq(tools, LAMBDA t : t.name # f.nextStep.toolName)
                ELSE tools
    /\ UNCHANGED <<modelRegistry, reasoningRegistry, passed>>

\* Iteration i executes its statement stmt, which takes its frame to f.
Step(i, stmt, f) ==
    /\ iter[i].pc = stmt
    /\ iter' = [iter EXCEPT ![i] = f]
    /\ UNCHANGED <<tools, modelRegistry, reasoningRegistry, passed>>

DoCompile == \E i \in DOMAIN iter : Step(i, "compile", compile(iter[i]))

DoToolsMetadata == \E i \in DOMAIN iter : Step(i, "toolsMetadata", toolsMetadata(iter[i]))

DoToolsByName == \E i \in DOMAIN iter : Step(i, "toolsByName", toolsByName(iter[i]))

DoLlm == \E i \in DOMAIN iter : Step(i, "llm", llm(iter[i]))

DoReasoningEngine == \E i \in DOMAIN iter : Step(i, "reasoningEngine", reasoningEngine(iter[i]))

DoBuildPrompt == \E i \in DOMAIN iter : Step(i, "buildPrompt", llmPrompt(iter[i]))

\* The model, outside the program, decides what run does.
DoRun ==
    \E i \in DOMAIN iter :
        /\ iter[i].pc = "run"
        /\ \E out \in Outputs \cup {ModelUnavailable} :
               Step(i, "run", llmOutput(iter[i], out))

DoParse == \E i \in DOMAIN iter : Step(i, "parse", nextStep(iter[i]))

DoIsDone == \E i \in DOMAIN iter : Step(i, "isDone", isDone(iter[i]))

DoTool == \E i \in DOMAIN iter : Step(i, "tool", tool(iter[i]))

DoToolInputByName == \E i \in DOMAIN iter : Step(i, "toolInputByName", toolInputByName(iter[i]))

DoParams == \E i \in DOMAIN iter : Step(i, "params", params(iter[i]))

DoFor == \E i \in DOMAIN iter : Step(i, "for", for(iter[i]))

DoAbiEncodedParams == \E i \in DOMAIN iter : Step(i, "abiEncodedParams", abiEncodedParams(iter[i]))

DoReturn == \E i \in DOMAIN iter : Step(i, "return", return(iter[i]))

Next ==
    \/ DoCompile
    \/ DoToolsMetadata
    \/ DoToolsByName
    \/ DoLlm
    \/ DoReasoningEngine
    \/ DoBuildPrompt
    \/ DoRun
    \/ DoParse
    \/ DoIsDone
    \/ DoTool
    \/ DoToolInputByName
    \/ DoParams
    \/ DoFor
    \/ DoAbiEncodedParams
    \/ DoReturn

Spec == Init /\ [][Next]_vars

\* The call is sequential code on a running interpreter: whenever it has a
\* next statement, that statement is executed; in particular run returns or
\* raises.
SpecFair == Spec /\ WF_Progress(Next)

(***************************************************************************)
(* Two calls at once.  The host may call the entry points concurrently     *)
(* over one catalog and one pair of registries; the statements of the two  *)
(* calls interleave in any order, one call running wholly before the other *)
(* included.  The model answers each call with one of a few outputs that   *)
(* between them take every path through the function.                      *)
(***************************************************************************)
PairIters == {1, 2}

PairNextSteps ==
    {Finished("42"),
     ToolInvocation("ping", <<>>, "r1"),
     ToolInvocation("mint", <<>>, "r1"),
     ToolInvocation("transfer", <<>>, "r1"),
     ToolInvocation("transfer", <<Param("to", "0xABC"), Param("amount", "100")>>, "r1"),
     ToolInvocation("transfer", <<Param("amount", "100"), Param("to", "0xABC")>>, "r2"),
     ToolInvocation("transfer", <<Param("to", "100")>>, "r1"),
     ToolInvocation("transfer", <<Param("memo", "0xABC")>>, "r1")}

PairOutputs == {Says(ns) : ns \in PairNextSteps} \cup {Garbage}

InitPair ==
    /\ tools \in Catalogs
    /\ modelRegistry = [m \in {"m1"} |-> ModelHandle(m)]
    /\ reasoningRegistry \in EngineRegistries
    /\ iter \in [PairIters -> {Frame(v, m) : v \in Variants, m \in ModelIds}]
    /\ passed = [tools |-> tools, modelRegistry |-> modelRegistry,
                 reasoningRegistry |-> reasoningRegistry]

DoRunPair ==
    \E i \in DOMAIN iter :
        /\ iter[i].pc = "run"
        /\ \E out \in PairOutputs \cup {ModelUnavailable} :
               Step(i, "run", llmOutput(iter[i], out))

NextPair ==
    \/ DoCompile
    \/ DoToolsMetadata
    \/ DoToolsByName
    \/ DoLlm
    \/ DoReasoningEngine
    \/ DoBuildPrompt
    \/ DoRunPair
    \/ DoParse
    \/ DoIsDone
    \/ DoTool
    \/ DoToolInputByName
    \/ DoParams
    \/ DoFor
    \/ DoAbiEncodedParams
    \/ DoReturn

SpecPair == InitPair /\ [][NextPair]_vars

(***************************************************************************)
(* Vocabulary of the properties                                            *)
(***************************************************************************)
Frames == {iter[i] : i \in DOMAIN iter}

Ended(s) == s.pc \in {"returned", "raised"}

Invoked(s, op) == \E k \in DOMAIN s.calls : s.calls[k].op = op

\* The error kinds of section 7 of the specification.
Taxonomy ==
    {"UnknownModel", "UnknownReasoningStrategy", "ModelUnavailable",
     "UnparsableOutput", "UnknownTool", "UnknownParameter", "MissingParameter",
     "EncodingError"}

ModelKnown(s) == s.modelId \in DOMAIN passed.modelRegistry

EngineKnown == RE_ACT \in DOMAIN passed.reasoningRegistry

CatalogNames == {passed.tools[k].name : k \in DOMAIN passed.tools}

CatalogTool(n) == passed.tools[CHOOSE k \in DOMAIN passed.tools : passed.tools[k].name = n]

\* parse has returned a tool invocation.
IsToolCall(s) == s.nextStep.kind = "ToolInvocation"

\* ... that names a tool of the catalog.
ToolKnown(s) == IsToolCall(s) /\ s.nextStep.toolName \in CatalogNames

Raw(s) == s.nextStep.params

Schema(s) == CatalogTool(s.nextStep.toolName).inputDescription.paramDescriptions

SchemaNames(s) == {Schema(s)[k].name : k \in DOMAIN Schema(s)}

RawNames(s) == {Raw(s)[k].name : k \in DOMAIN Raw(s)}

DeclaredType(s, n) == (CHOOSE d \in {Schema(s)[k] : k \in DOMAIN Schema(s)} : d.name = n).type

\* The raw parameter at position k is in the schema and the encoder accepts it.
Resolvable(s, k) ==
    /\ Raw(s)[k].name \in SchemaNames(s)
    /\ Encodable(Raw(s)[k].value, DeclaredType(s, Raw(s)[k].name))

RawValueOf(s, n) == (CHOOSE p \in {Raw(s)[k] : k \in DOMAIN Raw(s)} : p.name = n).value

\* encodeAll of the encoded values in the order the schema declares them.
SchemaOrderPayload(s) ==
    abi_encodeAll([k \in DOMAIN Schema(s) |->
                      abi_encode(RawValueOf(s, Schema(s)[k].name), Schema(s)[k].type)])

ResolutionOps == {"toolsByName.get", "toolInputByName[]", "abi.encode", "abi.encodeAll"}

(***************************************************************************)
(* Claims                                                                  *)
(***************************************************************************)

\* C1 (as claimed): when the raw parameter names are exactly the schema's
\* names, each once, in any order, and every value is encodable, the iteration
\* returns, and its encodedPayload is encodeAll of the encoded values in the
\* schema's declared order (so two runs differing only in raw order agree).
C1_PayloadInSchemaOrder ==
    \A s \in Frames :
        ( /\ Ended(s)
          /\ ToolKnown(s)
          /\ Len(Raw(s)) = Len(Schema(s))
          /\ RawNames(s) = SchemaNames(s)
          /\ \A k \in DOMAIN Raw(s) : Resolvable(s, k) )
        => /\ s.pc = "returned"
           /\ s.result.toolInput.abiEncodedParams = SchemaOrderPayload(s)

\* C2 (as claimed): with a model identifier that is not in the model registry
\* the iteration ends with UnknownModel, and neither buildPrompt nor run is
\* ever invoked.
C2_UnknownModelBeforePrompt ==
    \A s \in Frames :
        ~ModelKnown(s)
        => /\ ~Invoked(s, "buildPrompt")
           /\ ~Invoked(s, "run")
           /\ s.pc # "returned"
           /\ s.pc = "raised" => s.raised.kind = "UnknownModel"

\* C3 (as claimed): when the raw parameters (all of them resolvable) leave out
\* a parameter the schema declares, the iteration fails with MissingParameter
\* naming an omitted parameter, returns no result, and never performs the
\* aggregate encoding.
C3_MissingParameter ==
    \A s \in Frames :
        ( /\ ToolKnown(s)
          /\ \A k \in DOMAIN Raw(s) : Resolvable(s, k)
          /\ SchemaNames(s) \ RawNames(s) # {} )
        => /\ ~Invoked(s, "abi.encodeAll")
           /\ s.pc # "returned"
           /\ s.pc = "raised"
                => /\ s.raised.kind = "MissingParameter"
                   /\ s.raised.name \in SchemaNames(s) \ RawNames(s)

\* C4 (as claimed): when a raw parameter's name is not in the schema (and the
\* raw parameters before it are resolvable), the iteration fails with
\* UnknownParameter naming that parameter, wherever it stands in the raw list,
\* and returns no ToolInput.
C4_UnknownParameter ==
    \A s \in Frames :
        \A u \in (IF ToolKnown(s) THEN DOMAIN Raw(s) ELSE {}) :
            ( /\ Raw(s)[u].name \notin SchemaNames(s)
              /\ \A k \in 1..(u - 1) : Resolvable(s, k) )
            => /\ s.pc # "returned"
               /\ s.pc = "raised"
                    => /\ s.raised.kind = "UnknownParameter"
                       /\ s.raised.name = Raw(s)[u].name

\* C5 (as claimed): when the parsed tool name is no tool of the catalog, the
\* iteration fails with UnknownTool, no parameter is looked up or encoded, and
\* the catalog is what it was when it was passed.
C5_UnknownTool ==
    \A s \in Frames :
        (IsToolCall(s) /\ ~ToolKnown(s))
        => /\ ~Invoked(s, "toolInputByName[]")
           /\ ~Invoked(s, "abi.encode")
           /\ ~Invoked(s, "abi.encodeAll")
           /\ tools = passed.tools
           /\ s.pc # "returned"
           /\ s.pc = "raised" => s.raised.kind = "UnknownTool"

\* C6: once parse has yielded Finished{answer}, the only statement left is the
\* return of the final answer: the iteration returns FinalAnswer with that
\* answer as its text, raises nothing, and never invokes the catalog lookup,
\* the parameter lookup, encode or encodeAll.
C6_FinishedReturnsAnswer ==
    \A s \in Frames :
        s.nextStep.kind = "Finished"
        => /\ s.pc \in {"isDone", "returned"}
           /\ s.raised = None
           /\ \A op \in ResolutionOps : ~Invoked(s, op)
           /\ s.pc = "returned"
                => s.result = [isFinalAnswer |-> TRUE, finalAnswer |-> s.nextStep.answer]

\* C6 witness: a run whose parse yielded Finished has returned its answer.
C6_Witness ==
    \E s \in Frames :
        /\ s.nextStep.kind = "Finished"
        /\ s.pc = "returned"
        /\ s.result.isFinalAnswer
        /\ s.result.finalAnswer = "42"

\* C7 (as claimed): a run that fails ends in one of the error kinds of the
\* taxonomy; a model output that parses but names a tool or a parameter that
\* does not exist ends in UnknownTool or UnknownParameter.
C7_OnlyTaxonomyErrors ==
    \A s \in Frames :
        s.pc = "raised"
        => /\ s.raised.kind \in Taxonomy
           /\ (IsToolCall(s) /\ ~ToolKnown(s)) => s.raised.kind = "UnknownTool"
           /\ ( /\ ToolKnown(s)
                /\ \E u \in DOMAIN Raw(s) :
                      /\ Raw(s)[u].name \notin SchemaNames(s)
                      /\ \A k \in 1..(u - 1) : Resolvable(s, k) )
              => s.raised.kind = "UnknownParameter"

\* A failure the run has met by the time it is in the state s: a lookup whose
\* key is absent, a rejected value, or a schema parameter left out.
HitFailure(s) ==
    \/ s.llm # Unbound /\ ~ModelKnown(s)
    \/ s.reasoningEngine # Unbound /\ ~EngineKnown
    \/ s.tool # Unbound /\ ~ToolKnown(s)
    \/ /\ ToolKnown(s)
       /\ s.params # Unbound
       /\ \/ \E k \in 1..s.done : ~Resolvable(s, k)
          \/ s.done = Len(Raw(s)) /\ s.pc # "for" /\ SchemaNames(s) \ RawNames(s) # {}

\* C8 (as claimed): a failure aborts the iteration where it happens: no
\* local is bound to a substitute for a failed lookup, no later statement
\* runs, and a run that met a failure returns no result.
C8_FailureAborts ==
    \A s \in Frames :
        /\ s.llm # None /\ s.reasoningEngine # None /\ s.tool # None
        /\ HitFailure(s) => s.pc = "raised"

\* C9 (as claimed): with the model registered and no reasoning engine
\* registered for RE_ACT, the iteration ends with UnknownReasoningStrategy,
\* and neither buildPrompt nor run is ever invoked.
C9_UnknownReasoningStrategy ==
    \A s \in Frames :
        (ModelKnown(s) /\ ~EngineKnown)
        => /\ ~Invoked(s, "buildPrompt")
           /\ ~Invoked(s, "run")
           /\ s.pc # "returned"
           /\ s.pc = "raised" => s.raised.kind = "UnknownReasoningStrategy"

\* The calls of abi.encode(value, type) the run has made, in order.
EncodeCalls(s) == SelectSeq(s.calls, LAMBDA c : c.op = "abi.encode")

\* C10 (as claimed): when the encoder rejects the value of a raw parameter
\* for its declared type (the raw parameters before it being resolvable), the
\* iteration fails with an EncodingError that identifies the parameter's name
\* and declared type, and returns no ToolInput; and the type of every call of
\* the encoder is the one the schema declares for that raw parameter's name.
C10_EncodingError ==
    \A s \in Frames :
        /\ ToolKnown(s) =>
             \A k \in DOMAIN EncodeCalls(s) :
                 EncodeCalls(s)[k].b = DeclaredType(s, Raw(s)[k].name)
        /\ \A u \in (IF ToolKnown(s) THEN DOMAIN Raw(s) ELSE {}) :
             ( /\ Raw(s)[u].name \in SchemaNames(s)
               /\ ~Resolvable(s, u)
               /\ \A k \in 1..(u - 1) : Resolvable(s, k) )
             => /\ s.pc # "returned"
                /\ s.pc = "raised"
                     => /\ s.raised.kind = "EncodingError"
                        /\ s.raised.name = Raw(s)[u].name
                        /\ s.raised.type = DeclaredType(s, Raw(s)[u].name)

\* How often the run has invoked the collaborator operation op.
Count(s, op) == Len(SelectSeq(s.calls, LAMBDA c : c.op = op))

\* run was invoked and gave no output: it raised.
RunFailed(s) == Invoked(s, "run") /\ s.llmOutput = Unbound

\* C11: when llm.run fails, the iteration ends with ModelUnavailable raised
\* at the run statement: run was invoked exactly once, parse is never
\* invoked, and no result is returned.
C11_ModelUnavailableNotRetried ==
    \A s \in Frames :
        RunFailed(s)
        => /\ s.pc = "raised"
           /\ s.raised.kind = "ModelUnavailable"
           /\ s.raised.at = "run"
           /\ Count(s, "run") = 1
           /\ ~Invoked(s, "parse")
           /\ s.result = None

\* C11 witness: a run whose model call failed has ended with ModelUnavailable.
C11_Witness ==
    \E s \in Frames :
        /\ RunFailed(s)
        /\ s.pc = "raised"
        /\ s.raised.kind = "ModelUnavailable"

\* The iteration has returned from a tool invocation.
ReturnedToolCall(s) == s.pc = "returned" /\ IsToolCall(s)

\* C12: a tool-call iteration that returns, returns a pending tool call
\* (isFinalAnswer false) with the catalog tool named by the parsed toolName,
\* the parsed reasoning unchanged, and a ToolInput with both fields set: the
\* params mapping by name and the aggregate payload made by the encoder.
C12_PendingToolCallShape ==
    \A s \in Frames :
        ReturnedToolCall(s)
        => /\ DOMAIN s.result = {"isFinalAnswer", "tool", "toolInput", "agentReasoning"}
           /\ ~s.result.isFinalAnswer
           /\ ToolKnown(s)
           /\ s.result.tool = CatalogTool(s.nextStep.toolName)
           /\ s.result.agentReasoning = s.nextStep.reasoning
           /\ DOMAIN s.result.toolInput = {"params", "abiEncodedParams"}
           /\ s.result.toolInput.params = s.parsedParams
           /\ s.parsedParams # Unbound
           /\ \A n \in DOMAIN s.result.toolInput.params :
                  DOMAIN s.result.toolInput.params[n] = {"type", "value"}
           /\ s.result.toolInput.abiEncodedParams # Unbound
           /\ \E k \in DOMAIN s.calls :
                  /\ s.calls[k].op = "abi.encodeAll"
                  /\ s.result.toolInput.abiEncodedParams = abi_encodeAll(s.calls[k].a)

\* C12 witness: the call of transfer has returned its pending tool call.
C12_Witness ==
    \E s \in Frames :
        /\ ReturnedToolCall(s)
        /\ s.result.tool = transfer
        /\ s.result.agentReasoning = "r2"

\* C13: two runs of the same entry point whose parse yielded the same tool
\* invocation, over the same catalog, end the same way however their
\* statements were ordered (one after the other included): the same result,
\* with the same params mapping and the same payload, or the same error.
C13_ResolverIdempotent ==
    \A i \in DOMAIN iter : \A j \in DOMAIN iter :
        LET a == iter[i]
            b == iter[j]
        IN
        ( /\ a.variant = b.variant
          /\ IsToolCall(a)
          /\ a.nextStep = b.nextStep
          /\ Ended(a)
          /\ Ended(b) )
        => /\ a.result = b.result
           /\ a.raised = b.raised
           /\ a.parsedParams = b.parsedParams
           /\ a.abiEncodedParams = b.abiEncodedParams

\* C13 witness: both calls resolved the same invocation of transfer and both
\* have returned.
C13_Witness ==
    /\ ReturnedToolCall(iter[1])
    /\ ReturnedToolCall(iter[2])
    /\ iter[1].variant = iter[2].variant
    /\ iter[1].nextStep = iter[2].nextStep
    /\ iter[1].nextStep.toolName = "transfer"
    /\ iter[1].result = iter[2].result

\* C14: at every point of an iteration, and so after it has ended in a final
\* answer, a pending tool call or any error, the catalog (its tools, their
\* schemas, their order), the model registry and the reasoning registry are
\* what they were when the call was made.
C14_CatalogAndRegistriesUnchanged ==
    /\ tools = passed.tools
    /\ modelRegistry = passed.modelRegistry
    /\ reasoningRegistry = passed.reasoningRegistry

\* C14 witness: a call with an unregistered model id over a catalog of two
\* tools has ended, and catalog and registries are as passed.
C14_Witness ==
    \E s \in Frames :
        /\ Ended(s)
        /\ ~ModelKnown(s)
        /\ Len(tools) = Len(passed.tools)
        /\ Len(tools) > 1
        /\ DOMAIN modelRegistry = DOMAIN passed.modelRegistry

\* What the model did in the run that is in s: the text it returned, or its
\* failure when run gave no text (or was never called).
ModelDid(s) == IF s.llmOutput # Unbound THEN s.llmOutput ELSE ModelUnavailable

\* The frames s and t agree on how the call ended and on what it resolved.
SameOutcome(s, t) ==
    /\ s.pc = t.pc
    /\ s.raised = t.raised
    /\ s.result = t.result
    /\ s.nextStep = t.nextStep
    /\ s.tool = t.tool
    /\ s.done = t.done
    /\ s.keys = t.keys
    /\ s.calls = t.calls

\* C15: with two calls running concurrently over one catalog and one pair of
\* registries, their statements interleaved in any order, each call that has
\* ended has ended as the same call ends when it runs alone on the same
\* model output: same result or error, same parsed step, same resolved tool,
\* same parameters resolved, same calls of the collaborators.
C15_ConcurrentAsAlone ==
    \A i \in DOMAIN iter :
        Ended(iter[i])
        => SameOutcome(iter[i],
                       CallAlone(iter[i].variant, iter[i].modelId, ModelDid(iter[i])))

\* C15 witness: two concurrent calls of executeAgent have both ended, one
\* with a pending tool call, the other on an unknown parameter.
C15_Witness ==
    /\ ReturnedToolCall(iter[1])
    /\ iter[2].pc = "raised"
    /\ iter[2].raised.kind = "KeyError"
    /\ iter[1].variant = iter[2].variant

\* The stage of section 5 of the specification that the call in s is in.
Stage(s) ==
    CASE s.pc \in {"returned", "raised"} -> "Done"
      [] s.pc = "return" -> "ParamsResolved"
      [] s.pc \in {"tool", "toolInputByName", "params", "for", "abiEncodedParams"}
           -> "ToolResolving"
      [] s.pc = "isDone" -> "Parsed"
      [] s.pc = "parse" -> "ModelInvoked"
      [] s.pc = "run" -> "PromptBuilt"
      [] OTHER -> "Start"

\* The arrows of the stage diagram.
StageSteps ==
    {<<"Start", "PromptBuilt">>, <<"PromptBuilt", "ModelInvoked">>,
     <<"ModelInvoked", "Parsed">>, <<"Parsed", "Done">>,
     <<"Parsed", "ToolResolving">>, <<"ToolResolving", "ParamsResolved">>,
     <<"ParamsResolved", "Done">>}

\* C16: every step of a call either stays in its stage, follows an arrow of
\* Start -> PromptBuilt -> ModelInvoked -> Parsed -> {Done | ToolResolving ->
\* ParamsResolved -> Done}, or ends the call in Done by raising; Done is
\* never left; after the step buildPrompt, run and parse have each been
\* invoked at most once, and the tool lookup has happened only if parse has
\* returned a step.
C16_StagesInOrder ==
    [][\A i \in DOMAIN iter :
          LET a == Stage(iter[i])
              b == Stage(iter'[i])
          IN  /\ \/ a = b
                 \/ <<a, b>> \in StageSteps
                 \/ a # "Done" /\ iter'[i].pc = "raised"
              /\ a = "Done" => iter'[i] = iter[i]
              /\ Count(iter'[i], "buildPrompt") <= 1
              /\ Count(iter'[i], "run") <= 1
              /\ Count(iter'[i], "parse") <= 1
              /\ Invoked(iter'[i], "toolsByName.get")
                 => /\ Invoked(iter'[i], "parse")
                    /\ iter'[i].nextStep # Unbound]_vars

\* C16 witness: a call has gone through every stage, ending in Done with a
\* pending tool call, each collaborator invoked once.
C16_Witness ==
    \E s \in Frames :
        /\ Stage(s) = "Done"
        /\ s.pc = "returned"
        /\ Invoked(s, "abi.encodeAll")
        /\ Count(s, "buildPrompt") = 1
        /\ Count(s, "run") = 1
        /\ Count(s, "parse") = 1
        /\ Count(s, "toolsByName.get") = 1

\* C17 (as claimed): in every tool-call iteration that returns, the keys of
\* the returned params mapping are exactly the parameter names of the invoked
\* tool's schema, and under each key stands the type the schema declares for
\* it and the encoding, at that type, of the raw value supplied under it.
C17_ParamsMatchSchema ==
    \A s \in Frames :
        (ReturnedToolCall(s) /\ ToolKnown(s))
        => LET ps == s.result.toolInput.params
           IN  /\ DOMAIN ps = SchemaNames(s)
               /\ \A n \in DOMAIN ps :
                     /\ ps[n].type = DeclaredType(s, n)
                     /\ ps[n].value = abi_encode(RawValueOf(s, n), DeclaredType(s, n))

\* The call in s is past the parameter loop, having left it normally.
PastLoop(s) ==
    \/ s.pc \in {"abiEncodedParams", "return"}
    \/ ReturnedToolCall(s)
    \/ s.pc = "raised" /\ s.raised.at = "abiEncodedParams"

\* C18: with run always returning or raising, every call eventually ends;
\* a call that has ended has exactly one outcome (a returned FinalAnswer, a
\* returned PendingToolCall, or an error and no result); the body of the
\* parameter loop never runs more often than there are raw parameters, and
\* when the loop is left normally it has run exactly once per raw parameter.
C18_Terminates ==
    /\ <>(\A i \in DOMAIN iter : Ended(iter[i]))
    /\ [](\A i \in DOMAIN iter :
            LET s == iter[i]
            IN  /\ s.pc = "returned"
                   => /\ s.result # None
                      /\ s.raised = None
                      /\ s.result.isFinalAnswer = ~IsToolCall(s)
                /\ s.pc = "raised" => (s.raised # None /\ s.result = None)
                /\ ~Ended(s) => (s.raised = None /\ s.result = None)
                /\ Invoked(s, "toolInputByName[]")
                   => Count(s, "toolInputByName[]") <= Len(s.params)
                /\ PastLoop(s)
                   => /\ s.done = Len(s.params)
                      /\ Count(s, "toolInputByName[]") = Len(s.params))

\* C18 witness: a call has ended after its loop ran over two raw parameters.
C18_Witness ==
    \E s \in Frames :
        /\ Ended(s)
        /\ PastLoop(s)
        /\ Len(s.params) >= 2
        /\ Count(s, "toolInputByName[]") = Len(s.params)

\* Some schema parameter is named by more than one raw parameter.
HasDuplicate(s) ==
    \E k \in DOMAIN Raw(s) : \E l \in DOMAIN Raw(s) :
        k < l /\ Raw(s)[k].name = Raw(s)[l].name

\* The value of the last raw parameter named n.
LastValueOf(s, n) ==
    LET ks == {k \in DOMAIN Raw(s) : Raw(s)[k].name = n}
    IN  Raw(s)[CHOOSE k \in ks : \A l \in ks : l <= k].value

\* C19 (as claimed): when the raw parameters (all of them resolvable) name a
\* schema parameter more than once, the iteration that has ended has not
\* failed: it returned, every raw occurrence was encoded, and the returned
\* params mapping has one entry per raw name, holding the encoding of the
\* last occurrence of that name.
C19_DuplicateLastWins ==
    \A s \in Frames :
        ( /\ Ended(s)
          /\ ToolKnown(s)
          /\ \A k \in DOMAIN Raw(s) : Resolvable(s, k)
          /\ HasDuplicate(s) )
        => /\ s.pc = "returned"
           /\ s.raised = None
           /\ Count(s, "abi.encode") = Len(Raw(s))
           /\ DOMAIN s.result.toolInput.params = RawNames(s)
           /\ \A n \in RawNames(s) :
                 s.result.toolInput.params[n] =
                     ParamValue(DeclaredType(s, n),
                                abi_encode(LastValueOf(s, n), DeclaredType(s, n)))

\* How a call that has ended, ended.
OutcomeKind(s) ==
    IF s.pc = "raised" THEN "Error"
    ELSE IF s.result.isFinalAnswer THEN "FinalAnswer" ELSE "PendingToolCall"

\* C20 (as claimed): a call of executeAgent that has ended, and the call of
\* runNextIteration with the same model identifier over the same catalog and
\* registries and the same behaviour of the model, end in the same kind of
\* outcome; when that is a pending tool call, with the same catalog tool, the
\* same params mapping, the same encoded payload and the same reasoning.
C20_EntryPointsEquivalent ==
    \A i \in DOMAIN iter :
        (Ended(iter[i]) /\ iter[i].variant = "executeAgent")
        => LET e == iter[i]
               r == CallAlone("runNextIteration", e.modelId, ModelDid(e))
           IN  /\ OutcomeKind(r) = OutcomeKind(e)
               /\ OutcomeKind(e) = "PendingToolCall"
                  => /\ r.result.tool = e.result.tool
                     /\ r.result.toolInput.params = e.result.toolInput.params
                     /\ r.result.toolInput.abiEncodedParams
                            = e.result.toolInput.abiEncodedParams
                     /\ r.result.agentReasoning = e.result.agentReasoning

====
